---- MODULE Spec2Model ----
(***************************************************************************)
(* padre_meddea.io.file_tools: parse_l0_file and the three packet          *)
(* definitions.  parse_l0_file splits a level 0 byte stream by APID        *)
(* (ccsdspy.utils.split_by_apid), then loads the histogram bucket with a   *)
(* FixedLength packet and the photon bucket with a VariableLength packet,  *)
(* catching RuntimeError only.                                             *)
(*                                                                         *)
(* The stream is a sequence of bytes (0..255).  Bit fields are unsigned,   *)
(* big-endian, most significant bit first.  The 64 bit time fields are     *)
(* generated with their six upper bytes zero so that every decoded value   *)
(* fits the integers of the model checker.                                 *)
(***************************************************************************)
EXTENDS Integers, Sequences, FiniteSets, TLC

\* ------------------------------------------------------------------ bounds
MaxPackets == 3
MaxGroups == 2
MaxHits == 1

\* ------------------------------------------------------- program constants
APID_HIST == 162
APID_PHOTON == 160
APID_HK == 163
APID_CMD == 165
HIST_SHAPE == 512

APID_DICT == {APID_HIST, APID_PHOTON, APID_HK, APID_CMD}

\* CCSDS primary header: 6 bytes; the length field holds (body bytes - 1).
HeaderLen == 6
ApidMask == 2047

VARIABLES
  file_bytes,            \* the bytes of the level 0 file
  include_ccsds_headers, \* parameter of parse_l0_file
  NUM_PIXELS,            \* padre_meddea.NUM_PIXELS
  NUM_DETECTORS,         \* padre_meddea.NUM_DETECTORS
  offset,                \* split_by_apid: read position
  stream_by_apid,        \* split_by_apid: apid -> bytes written so far
  order,                 \* split_by_apid: <<apid, first, last+1>> per iteration
  result,                \* parse_l0_file: apid -> loaded data
  printed,               \* apids of the "Error parsing" lines printed
  warned,                \* warnings issued by the library calls
  pc,                    \* position in parse_l0_file
  sent                   \* the packets the file was assembled from

vars == <<file_bytes, include_ccsds_headers, NUM_PIXELS, NUM_DETECTORS, offset,
          stream_by_apid, order, result, printed, warned, pc, sent>>

\* ----------------------------------------------------------------- helpers
Pow2(n) == 2 ^ n

Min(a, b) == IF a < b THEN a ELSE b

SubBytes(s, first, last) == [k \in 1..(last - first) |-> s[first + k]]

\* The half-open range [first, last) of s, clipped to s as a numpy slice is.
Slice(s, first, last) == SubBytes(s, first, Min(last, Len(s)))

RECURSIVE Horner(_, _, _, _)
Horner(s, first, last, acc) ==
  IF first > last THEN acc
  ELSE Horner(s, first + 1, last, acc * 256 + s[first])

\* Unsigned integer held by bits [bit, bit + len) of s, bit 0 being the most
\* significant bit of s[1].
DecodeUint(s, bit, len) ==
  LET fb == bit \div 8
      lb == (bit + len - 1) \div 8
      v == Horner(s, fb + 1, lb + 1, 0)
      trail == (lb + 1) * 8 - (bit + len)
      shifted == v \div Pow2(trail)
  IN IF bit % 8 = 0 THEN shifted ELSE shifted % Pow2(len)

\* ----------------------------------------------------- packet definitions
PacketField(name, bit_length) ==
  [name |-> name, bit_length |-> bit_length, array |-> FALSE, array_shape |-> 1,
   expand |-> FALSE]

PacketArray(name, bit_length, array_shape) ==
  [name |-> name, bit_length |-> bit_length, array |-> TRUE,
   array_shape |-> array_shape, expand |-> FALSE]

PacketArrayExpand(name, bit_length) ==
  [name |-> name, bit_length |-> bit_length, array |-> TRUE, array_shape |-> 0,
   expand |-> TRUE]

\* The name without its index.
IndexedName_NoIndex(base, i) == base

IndexedName(base, i) == base \o ToString(i)

\* The pixel number ahead of the detector number.
HistGroup_Swapped(i) ==
  << PacketField(IndexedName("HISTOGRAM_SYNC", i), 8),
     PacketField(IndexedName("HISTOGRAM_PIXNUM", i), 5),
     PacketField(IndexedName("HISTOGRAM_DETNUM", i), 3),
     PacketArray(IndexedName("HISTOGRAM_DATA", i), 16, HIST_SHAPE) >>

HistGroup(i) ==
  << PacketField(IndexedName("HISTOGRAM_SYNC", i), 8),
     PacketField(IndexedName("HISTOGRAM_DETNUM", i), 3),
     PacketField(IndexedName("HISTOGRAM_PIXNUM", i), 5),
     PacketArray(IndexedName("HISTOGRAM_DATA", i), 16, HIST_SHAPE) >>

RECURSIVE HistGroups(_, _)
HistGroups(i, n) == IF i >= n THEN << >> ELSE HistGroup(i) \o HistGroups(i + 1, n)

TOTAL_NUM_PIXELS(np, nd) == np * nd

packet_definition_hist(np, nd) ==
  << PacketField("START_TIME", 4 * 16), PacketField("END_TIME", 4 * 16) >>
  \o HistGroups(0, TOTAL_NUM_PIXELS(np, nd))
  \o << PacketField("CHECKSUM", 16) >>

\* TIME of two words instead of four.
packet_definition_ph_ShortTime ==
  << PacketField("TIME", 2 * 16),
     PacketField("INT_TIME", 16),
     PacketField("FLAGS", 16),
     PacketField("CHECKSUM", 16),
     PacketArrayExpand("PIXEL_DATA", 16) >>

packet_definition_ph ==
  << PacketField("TIME", 4 * 16),
     PacketField("INT_TIME", 16),
     PacketField("FLAGS", 16),
     PacketField("CHECKSUM", 16),
     PacketArrayExpand("PIXEL_DATA", 16) >>

packet_definition_hk ==
  << PacketField("TIME", 32),
     PacketArray("HOUSEKEEPING", 16, 8),
     PacketField("CHECKSUM", 16) >>

\* The primary header fields a load with include_primary_header=True returns.
PrimaryHeaderFields ==
  << PacketField("CCSDS_VERSION_NUMBER", 3),
     PacketField("CCSDS_PACKET_TYPE", 1),
     PacketField("CCSDS_SECONDARY_FLAG", 1),
     PacketField("CCSDS_APID", 11),
     PacketField("CCSDS_SEQUENCE_FLAG", 2),
     PacketField("CCSDS_SEQUENCE_COUNT", 14),
     PacketField("CCSDS_PACKET_LENGTH", 16) >>

\* ------------------------------------------------------------ input files
\* The kinds of packet a generated file is assembled from.
Kinds ==
  {<<k, 0>> : k \in {"hist", "photon_short", "hk", "unk1", "unk2"}}
  \cup {<<"photon", h>> : h \in 0..MaxHits}

KindApid(kind) ==
  CASE kind[1] = "hist" -> APID_HIST
    [] kind[1] \in {"photon", "photon_short"} -> APID_PHOTON
    [] kind[1] = "hk" -> APID_HK
    [] kind[1] = "unk1" -> 16
    [] kind[1] = "unk2" -> 17

HistBodyLen(n) == 16 + n * (2 + 2 * HIST_SHAPE) + 2

KindBodyLen(kind, n) ==
  CASE kind[1] = "hist" -> HistBodyLen(n)
    [] kind[1] = "photon" -> 14 + 2 * kind[2]
    [] kind[1] = "photon_short" -> 8
    [] kind[1] = "hk" -> 22
    [] kind[1] \in {"unk1", "unk2"} -> 2

\* Byte j (from 0) of the body of packet idx.  The six upper bytes of a 64 bit
\* time field are zero.
PayloadByte(kind, idx, j) ==
  IF j < 6 \/ (kind[1] = "hist" /\ j \in 8..13) THEN 0
  ELSE (idx * 101 + j * 59 + (j \div 256) * 17 + 7) % 256

HkBody == <<0, 0, 0, 1, 0, 0, 0, 1, 0, 2, 0, 3, 0, 4, 0, 5, 0, 6, 0, 7, 171, 205>>

KindBody(kind, idx, n) ==
  IF kind[1] = "hk" THEN HkBody
  ELSE [j \in 1..KindBodyLen(kind, n) |-> PayloadByte(kind, idx, j - 1)]

\* Primary header: version 0, type 0, secondary header flag (set for photon
\* packets), 11 bit apid, sequence flags 3, 14 bit sequence count, length - 1.
KindHeader(kind, idx, n) ==
  LET apid == KindApid(kind)
      flag == IF KindApid(kind) = APID_PHOTON THEN 8 ELSE 0
      len == KindBodyLen(kind, n) - 1
  IN << flag + apid \div 256, apid % 256, 192 + idx \div 256, idx % 256,
        len \div 256, len % 256 >>

KindPacket(kind, idx, n) == KindHeader(kind, idx, n) \o KindBody(kind, idx, n)

RECURSIVE Assemble(_, _, _)
Assemble(kinds, idx, n) ==
  IF idx > Len(kinds) THEN << >>
  ELSE KindPacket(kinds[idx], idx, n) \o Assemble(kinds, idx + 1, n)

Damages == {"none", "residue", "clipped"}
Residue == <<1, 2, 3>>
ClipLen == 2

Damaged(bytes, damage) ==
  CASE damage = "none" -> bytes
    [] damage = "residue" -> bytes \o Residue
    [] damage = "clipped" -> SubBytes(bytes, 0, Len(bytes) - ClipLen)

RECURSIVE SentFrom(_, _, _, _)
SentFrom(kinds, idx, first, n) ==
  IF idx > Len(kinds) THEN << >>
  ELSE LET p == KindPacket(kinds[idx], idx, n)
       IN << [kind |-> kinds[idx], apid |-> KindApid(kinds[idx]), idx |-> idx,
              first |-> first, last |-> first + Len(p)] >>
          \o SentFrom(kinds, idx + 1, first + Len(p), n)

\* The values of padre_meddea.NUM_PIXELS and padre_meddea.NUM_DETECTORS, which
\* the package sets outside this module: every pair with at most MaxGroups
\* histogram groups.
Configs ==
  {c \in (1..MaxGroups) \X (1..MaxGroups) : TOTAL_NUM_PIXELS(c[1], c[2]) <= MaxGroups}

\* Histogram packets are long: the files that hold one are assembled from
\* histogram packets and photon packets.
HistKinds == {<<"hist", 0>>, <<"photon", MaxHits>>}

LightKinds == Kinds \ {<<"hist", 0>>}

KindSeqs == UNION {[1..n -> LightKinds] \cup [1..n -> HistKinds] : n \in 0..MaxPackets}

HasHist(kinds) == \E i \in 1..Len(kinds) : kinds[i][1] = "hist"

\* The two constants are read by packet_definition_hist only, which is called
\* only for a file with histogram packets: other files are parsed with <<1, 1>>.
Init ==
  /\ include_ccsds_headers \in BOOLEAN
  /\ \E kinds \in KindSeqs, damage \in Damages, c \in Configs :
       /\ damage = "clipped" => Len(kinds) > 0
       /\ HasHist(kinds) \/ c = <<1, 1>>
       /\ NUM_PIXELS = c[1]
       /\ NUM_DETECTORS = c[2]
       /\ sent = SentFrom(kinds, 1, 0, TOTAL_NUM_PIXELS(c[1], c[2]))
       /\ file_bytes = Damaged(Assemble(kinds, 1, TOTAL_NUM_PIXELS(c[1], c[2])), damage)
  /\ offset = 0
  /\ stream_by_apid = << >>
  /\ order = << >>
  /\ result = << >>
  /\ printed = << >>
  /\ warned = << >>
  /\ pc = "split"

\* ------------------------------------------------- split_by_apid (line 150)
PacketNBytes(bytes, off) == bytes[off + 5] * 256 + bytes[off + 6] + 7

HeaderApid(bytes, off) == (bytes[off + 1] * 256 + bytes[off + 2]) % (ApidMask + 1)

\* The packet replaces what the stream held.
Write_Overwrite(streams, apid, bytes) == (apid :> bytes) @@ streams

\* The packet is put in front of what the stream held.
Write_Prepend(streams, apid, bytes) ==
  IF apid \in DOMAIN streams THEN [streams EXCEPT ![apid] = bytes \o @]
  ELSE (apid :> bytes) @@ streams

Write(streams, apid, bytes) ==
  IF apid \in DOMAIN streams THEN [streams EXCEPT ![apid] = @ \o bytes]
  ELSE (apid :> bytes) @@ streams

\* One iteration of the loop: a whole header is left at offset.
SplitStep ==
  /\ pc = "split"
  /\ offset < Len(file_bytes)
  /\ offset + HeaderLen <= Len(file_bytes)
  /\ LET packet_nbytes == PacketNBytes(file_bytes, offset)
         apid == HeaderApid(file_bytes, offset)
         packet_bytes == Slice(file_bytes, offset, offset + packet_nbytes)
     IN /\ stream_by_apid' = Write(stream_by_apid, apid, packet_bytes)
        /\ order' = Append(order, <<apid, offset, offset + Len(packet_bytes)>>)
        /\ offset' = offset + packet_nbytes
  /\ UNCHANGED <<file_bytes, include_ccsds_headers, NUM_PIXELS, NUM_DETECTORS,
                 result, printed, warned, pc, sent>>

\* Fewer bytes than one header are left.  The call leaves open whether the
\* library indexes past the end of the buffer and raises, or stops with a
\* warning; both outcomes are modelled.
SplitHeaderError ==
  /\ pc = "split"
  /\ offset < Len(file_bytes)
  /\ offset + HeaderLen > Len(file_bytes)
  /\ pc' = "raised"
  /\ UNCHANGED <<file_bytes, include_ccsds_headers, NUM_PIXELS, NUM_DETECTORS,
                 offset, stream_by_apid, order, result, printed, warned, sent>>

SplitHeaderDropped ==
  /\ pc = "split"
  /\ offset < Len(file_bytes)
  /\ offset + HeaderLen > Len(file_bytes)
  /\ warned' = Append(warned, "truncated")
  /\ pc' = "hist"
  /\ UNCHANGED <<file_bytes, include_ccsds_headers, NUM_PIXELS, NUM_DETECTORS,
                 offset, stream_by_apid, order, result, printed, sent>>

SplitDone ==
  /\ pc = "split"
  /\ offset >= Len(file_bytes)
  /\ warned' = IF offset # Len(file_bytes) THEN Append(warned, "truncated") ELSE warned
  /\ pc' = "hist"
  /\ UNCHANGED <<file_bytes, include_ccsds_headers, NUM_PIXELS, NUM_DETECTORS,
                 offset, stream_by_apid, order, result, printed, sent>>

\* ------------------------------------------- pkt.load (lines 155-159, 165-170)
\* The packets of one apid's stream, delimited by their length fields; the
\* last one is short when the file ended inside it.
RECURSIVE WalkPackets(_, _)
WalkPackets(bytes, off) ==
  IF off >= Len(bytes) THEN << >>
  ELSE IF off + HeaderLen > Len(bytes) THEN << Slice(bytes, off, Len(bytes)) >>
  ELSE << Slice(bytes, off, off + PacketNBytes(bytes, off)) >>
       \o WalkPackets(bytes, off + PacketNBytes(bytes, off))

RECURSIVE FixedBits(_, _)
FixedBits(fields, i) ==
  IF i > Len(fields) THEN 0
  ELSE (IF fields[i].expand THEN 0 ELSE fields[i].bit_length * fields[i].array_shape)
       + FixedBits(fields, i + 1)

Complete(pkt) == Len(pkt) >= HeaderLen /\ Len(pkt) = PacketNBytes(pkt, 0)

\* Bits of the packet left to the expand array.
ExpandBits(pkt, fields) == Len(pkt) * 8 - HeaderLen * 8 - FixedBits(fields, 1)

\* Elements of field i in this packet.
ArrayShape(pkt, fields, i) ==
  IF fields[i].expand THEN ExpandBits(pkt, fields) \div fields[i].bit_length
  ELSE fields[i].array_shape

\* FixedLength: the packet is exactly as long as the definition.
FixedWellFormed(pkt, fields) ==
  Complete(pkt) /\ ExpandBits(pkt, fields) = 0

\* VariableLength: what follows the fixed fields is a whole number of elements.
VariableWellFormed(pkt, fields) ==
  /\ Complete(pkt)
  /\ ExpandBits(pkt, fields) >= 0
  /\ ExpandBits(pkt, fields) % fields[Len(fields)].bit_length = 0

\* Bit at which field i starts; the body starts behind the primary header and
\* the fields follow each other without gaps.
RECURSIVE BitOffset(_, _, _)
BitOffset(pkt, fields, i) ==
  IF i = 1 THEN HeaderLen * 8
  ELSE BitOffset(pkt, fields, i - 1)
       + fields[i - 1].bit_length * ArrayShape(pkt, fields, i - 1)

DecodeField(pkt, f, bit, shape) ==
  IF f.array
  THEN [k \in 1..shape |-> DecodeUint(pkt, bit + (k - 1) * f.bit_length, f.bit_length)]
  ELSE DecodeUint(pkt, bit, f.bit_length)

RECURSIVE HeaderBitOffset(_)
HeaderBitOffset(i) ==
  IF i = 1 THEN 0 ELSE HeaderBitOffset(i - 1) + PrimaryHeaderFields[i - 1].bit_length

FieldNames(fields) == {fields[i].name : i \in 1..Len(fields)}

HeaderNames(include_primary_header) ==
  IF include_primary_header THEN FieldNames(PrimaryHeaderFields) ELSE {}

\* The value of the named field in one packet.
DecodeNamed(pkt, fields, name) ==
  IF name \in FieldNames(fields)
  THEN LET i == CHOOSE i \in 1..Len(fields) : fields[i].name = name
       IN DecodeField(pkt, fields[i], BitOffset(pkt, fields, i),
                      ArrayShape(pkt, fields, i))
  ELSE LET i == CHOOSE i \in 1..Len(PrimaryHeaderFields) :
                  PrimaryHeaderFields[i].name = name
       IN DecodeUint(pkt, HeaderBitOffset(i), PrimaryHeaderFields[i].bit_length)

\* What load returns: field name -> one value per packet, in stream order.
Decoded(pkts, fields, include_primary_header) ==
  [name \in FieldNames(fields) \cup HeaderNames(include_primary_header) |->
     [k \in 1..Len(pkts) |-> DecodeNamed(pkts[k], fields, name)]]

WellFormed(pkt, fields) ==
  IF fields[Len(fields)].expand THEN VariableWellFormed(pkt, fields)
  ELSE FixedWellFormed(pkt, fields)

AllWellFormed(bytes, fields) ==
  \A k \in 1..Len(WalkPackets(bytes, 0)) : WellFormed(WalkPackets(bytes, 0)[k], fields)

WellFormedOnly(bytes, fields) ==
  SelectSeq(WalkPackets(bytes, 0), LAMBDA pkt : WellFormed(pkt, fields))

Update(res, apid, data) == (apid :> data) @@ res

\* ------------------------------------------------ parse_l0_file, histogram
HistFields == packet_definition_hist(NUM_PIXELS, NUM_DETECTORS)

HistAbsent ==
  /\ pc = "hist"
  /\ APID_HIST \notin DOMAIN stream_by_apid
  /\ pc' = "photon"
  /\ UNCHANGED <<file_bytes, include_ccsds_headers, NUM_PIXELS, NUM_DETECTORS,
                 offset, stream_by_apid, order, result, printed, warned, sent>>

\* load returns.  With a packet that does not fit the definition the library
\* may also return what it could decode, with a warning.
HistLoaded ==
  /\ pc = "hist"
  /\ APID_HIST \in DOMAIN stream_by_apid
  /\ result' = Update(result, APID_HIST,
                      Decoded(WellFormedOnly(stream_by_apid[APID_HIST], HistFields),
                              HistFields, include_ccsds_headers))
  /\ warned' = IF AllWellFormed(stream_by_apid[APID_HIST], HistFields) THEN warned
               ELSE Append(warned, "load")
  /\ pc' = "photon"
  /\ UNCHANGED <<file_bytes, include_ccsds_headers, NUM_PIXELS, NUM_DETECTORS,
                 offset, stream_by_apid, order, printed, sent>>

\* load raises RuntimeError: caught and printed (lines 161-162).
HistRuntimeError ==
  /\ pc = "hist"
  /\ APID_HIST \in DOMAIN stream_by_apid
  /\ ~AllWellFormed(stream_by_apid[APID_HIST], HistFields)
  /\ printed' = Append(printed, APID_HIST)
  /\ pc' = "photon"
  /\ UNCHANGED <<file_bytes, include_ccsds_headers, NUM_PIXELS, NUM_DETECTORS,
                 offset, stream_by_apid, order, result, warned, sent>>

\* load raises an exception that is no RuntimeError: not caught.
HistOtherError ==
  /\ pc = "hist"
  /\ APID_HIST \in DOMAIN stream_by_apid
  /\ ~AllWellFormed(stream_by_apid[APID_HIST], HistFields)
  /\ pc' = "raised"
  /\ UNCHANGED <<file_bytes, include_ccsds_headers, NUM_PIXELS, NUM_DETECTORS,
                 offset, stream_by_apid, order, result, printed, warned, sent>>

\* --------------------------------------------------- parse_l0_file, photon
PhotonAbsent ==
  /\ pc = "photon"
  /\ APID_PHOTON \notin DOMAIN stream_by_apid
  /\ pc' = "done"
  /\ UNCHANGED <<file_bytes, include_ccsds_headers, NUM_PIXELS, NUM_DETECTORS,
                 offset, stream_by_apid, order, result, printed, warned, sent>>

PhotonLoaded ==
  /\ pc = "photon"
  /\ APID_PHOTON \in DOMAIN stream_by_apid
  /\ result' = Update(result, APID_PHOTON,
                      Decoded(WellFormedOnly(stream_by_apid[APID_PHOTON],
                                             packet_definition_ph),
                              packet_definition_ph, include_ccsds_headers))
  /\ warned' = IF AllWellFormed(stream_by_apid[APID_PHOTON], packet_definition_ph)
               THEN warned ELSE Append(warned, "load")
  /\ pc' = "done"
  /\ UNCHANGED <<file_bytes, include_ccsds_headers, NUM_PIXELS, NUM_DETECTORS,
                 offset, stream_by_apid, order, printed, sent>>

PhotonRuntimeError ==
  /\ pc = "photon"
  /\ APID_PHOTON \in DOMAIN stream_by_apid
  /\ ~AllWellFormed(stream_by_apid[APID_PHOTON], packet_definition_ph)
  /\ printed' = Append(printed, APID_PHOTON)
  /\ pc' = "done"
  /\ UNCHANGED <<file_bytes, include_ccsds_headers, NUM_PIXELS, NUM_DETECTORS,
                 offset, stream_by_apid, order, result, warned, sent>>

PhotonOtherError ==
  /\ pc = "photon"
  /\ APID_PHOTON \in DOMAIN stream_by_apid
  /\ ~AllWellFormed(stream_by_apid[APID_PHOTON], packet_definition_ph)
  /\ pc' = "raised"
  /\ UNCHANGED <<file_bytes, include_ccsds_headers, NUM_PIXELS, NUM_DETECTORS,
                 offset, stream_by_apid, order, result, printed, warned, sent>>

Next ==
  \/ SplitStep \/ SplitHeaderError \/ SplitHeaderDropped \/ SplitDone
  \/ HistAbsent \/ HistLoaded \/ HistRuntimeError \/ HistOtherError
  \/ PhotonAbsent \/ PhotonLoaded \/ PhotonRuntimeError \/ PhotonOtherError

Spec == Init /\ [][Next]_vars

\* ------------------------------------------------------- reference values
\* What the file was assembled from, independent of the split.
N == TOTAL_NUM_PIXELS(NUM_PIXELS, NUM_DETECTORS)

SentBytes(k) == KindPacket(sent[k].kind, sent[k].idx, N)

InFile(k) == sent[k].last <= Len(file_bytes)

Undamaged == Len(file_bytes) = (IF sent = << >> THEN 0 ELSE sent[Len(sent)].last)

NoResidue == Len(file_bytes) <= (IF sent = << >> THEN 0 ELSE sent[Len(sent)].last)

\* Whole packets of the file that fit their definition, by construction.
ValidHist(k) == sent[k].kind[1] = "hist" /\ InFile(k)

ValidPhoton(k) == sent[k].kind[1] = "photon" /\ InFile(k)

Valid(a, k) ==
  IF a = APID_HIST THEN ValidHist(k) ELSE a = APID_PHOTON /\ ValidPhoton(k)

RECURSIVE ValidFrom(_, _)
ValidFrom(a, k) ==
  IF k > Len(sent) THEN << >>
  ELSE (IF Valid(a, k) THEN << SentBytes(k) >> ELSE << >>) \o ValidFrom(a, k + 1)

ValidPackets(a) == ValidFrom(a, 1)

SentApids == {sent[k].apid : k \in 1..Len(sent)}

Returned == pc \in {"hist", "photon", "done"}

\* Payload length of a packet in 16 bit words.
Words(pkt) == (Len(pkt) - HeaderLen) \div 2

\* 16 bit word at byte position b (from 0) of pkt.
WordAt(pkt, b) == pkt[b + 1] * 256 + pkt[b + 2]

RangeLen(k) == order[k][3] - order[k][2]

RECURSIVE PriorLen(_, _)
PriorLen(k, j) ==
  IF j >= k THEN 0
  ELSE (IF order[j][1] = order[k][1] THEN RangeLen(j) ELSE 0) + PriorLen(k, j + 1)

Piece(k) ==
  SubBytes(stream_by_apid[order[k][1]], PriorLen(k, 1), PriorLen(k, 1) + RangeLen(k))

RECURSIVE Pieces(_)
Pieces(k) == IF k > Len(order) THEN << >> ELSE Piece(k) \o Pieces(k + 1)

Covered == IF order = << >> THEN 0 ELSE order[Len(order)][3]

Remainder == Slice(file_bytes, Covered, Len(file_bytes))

\* ------------------------------------------------------------------ claims
\* C1: the byte ranges split_by_apid returns are non-empty, start at 0 and
\* follow each other without gap or overlap; every apid's stream holds exactly
\* its ranges; and the ranges taken back out of the streams in offset order,
\* followed by the remainder that was not split, are the file.
C1_Partition ==
  Returned =>
    /\ \A k \in 1..Len(order) :
         /\ order[k][2] < order[k][3]
         /\ order[k][2] = (IF k = 1 THEN 0 ELSE order[k - 1][3])
    /\ DOMAIN stream_by_apid = {order[k][1] : k \in 1..Len(order)}
    /\ \A k \in 1..Len(order) :
         Len(stream_by_apid[order[k][1]]) >= PriorLen(k, 1) + RangeLen(k)
    /\ \A a \in DOMAIN stream_by_apid :
         \E k \in 1..Len(order) :
           /\ order[k][1] = a
           /\ Len(stream_by_apid[a]) = PriorLen(k, 1) + RangeLen(k)
    /\ Pieces(1) \o Remainder = file_bytes

\* C1 witness: two packets of different apids were split and a residue shorter
\* than a header was left over.
C1_Witness ==
  /\ pc = "done"
  /\ Len(order) = 2
  /\ order[1][1] # order[2][1]
  /\ Len(Remainder) > 0

\* C2 (amended): when the photon load returns, every valid photon packet of L
\* payload words, L >= 7, has a record, and its PIXEL_DATA has L - 7 elements.
C2_PixelCount ==
  (pc = "done" /\ APID_PHOTON \in DOMAIN result) =>
    LET ps == ValidPackets(APID_PHOTON)
        data == result[APID_PHOTON]["PIXEL_DATA"]
    IN /\ Len(data) = Len(ps)
       /\ \A k \in 1..Len(ps) : Words(ps[k]) >= 7 /\ Len(data[k]) = Words(ps[k]) - 7

\* C2 as stated: the PIXEL_DATA of every decoded photon packet of L payload
\* words has L - 4 elements.
C2_Original ==
  (pc = "done" /\ APID_PHOTON \in DOMAIN result) =>
    LET ps == ValidPackets(APID_PHOTON)
        data == result[APID_PHOTON]["PIXEL_DATA"]
    IN \A k \in 1..Len(ps) :
         k <= Len(data) /\ Words(ps[k]) >= 4 /\ Len(data[k]) = Words(ps[k]) - 4

\* C2 witness: a photon packet with pixel data was decoded.
C2_Witness ==
  /\ pc = "done"
  /\ APID_PHOTON \in DOMAIN result
  /\ \E r \in 1..Len(result[APID_PHOTON]["PIXEL_DATA"]) :
       Len(result[APID_PHOTON]["PIXEL_DATA"][r]) = MaxHits

\* C4: two back-to-back housekeeping packets decode to two records with
\* TIME = 1, HOUSEKEEPING = [0..7] and CHECKSUM = 0xABCD under the
\* housekeeping apid.
C4_Housekeeping ==
  (/\ pc = "done"
   /\ Len(sent) = 2
   /\ \A k \in 1..Len(sent) : sent[k].kind[1] = "hk"
   /\ Undamaged) =>
    /\ APID_HK \in DOMAIN result
    /\ result[APID_HK]["TIME"] = <<1, 1>>
    /\ result[APID_HK]["HOUSEKEEPING"] =
         << <<0, 1, 2, 3, 4, 5, 6, 7>>, <<0, 1, 2, 3, 4, 5, 6, 7>> >>
    /\ result[APID_HK]["CHECKSUM"] = <<43981, 43981>>

\* C5: a file holding only packets of apids without a packet definition is
\* parsed without an exception, to an empty result, with one report per
\* distinct apid.
C5_UnknownApid ==
  (/\ Len(sent) > 0
   /\ SentApids \cap APID_DICT = {}
   /\ Undamaged) =>
    /\ pc # "raised"
    /\ pc = "done" =>
         /\ DOMAIN result = {}
         /\ Len(printed) + Len(warned) = Cardinality(SentApids)

HistNames ==
  {"START_TIME", "END_TIME", "CHECKSUM"}
  \cup {IndexedName(b, i) : b \in {"HISTOGRAM_SYNC", "HISTOGRAM_DETNUM",
                                   "HISTOGRAM_PIXNUM", "HISTOGRAM_DATA"},
                             i \in 0..(N - 1)}

\* C6 (amended): the loaded histogram data has the 2 + 4N + 1 distinct names of
\* the definition, and the 7 primary header names beside them when the headers
\* are included; it holds one record per valid histogram packet, and every
\* HISTOGRAM_DATA{i} of a record has 512 elements.
C6_FieldNames ==
  (pc \in {"photon", "done"} /\ APID_HIST \in DOMAIN result) =>
    LET data == result[APID_HIST]
        count == Len(ValidPackets(APID_HIST))
    IN /\ Cardinality(HistNames) = 2 + 4 * N + 1
       /\ DOMAIN data = HistNames \cup HeaderNames(include_ccsds_headers)
       /\ Cardinality(DOMAIN data)
            = 2 + 4 * N + 1 + (IF include_ccsds_headers THEN 7 ELSE 0)
       /\ \A name \in DOMAIN data : Len(data[name]) = count
       /\ \A i \in 0..(N - 1), k \in 1..count :
            Len(data[IndexedName("HISTOGRAM_DATA", i)][k]) = 512

\* C6 as stated: the field-name set has exactly 2 + 4N + 1 names.
C6_Original ==
  (pc \in {"photon", "done"} /\ APID_HIST \in DOMAIN result) =>
    Cardinality(DOMAIN result[APID_HIST]) = 2 + 4 * N + 1

\* C6 witness: a histogram packet of two groups was loaded without headers.
C6_Witness ==
  /\ pc = "done"
  /\ APID_HIST \in DOMAIN result
  /\ N = 2
  /\ ~include_ccsds_headers
  /\ Len(result[APID_HIST]["START_TIME"]) >= 1

\* C7: with histogram and photon packets in the file, no failure to decode one
\* apid keeps parse from returning, and the result holds every record of the
\* other apid.
C7_Isolation ==
  ({APID_HIST, APID_PHOTON} \subseteq SentApids /\ NoResidue) =>
    /\ pc # "raised"
    /\ pc = "done" =>
         \A a \in {APID_HIST, APID_PHOTON} :
           (\A k \in 1..Len(sent) : sent[k].apid = a => Valid(a, k)) =>
             /\ a \in DOMAIN result
             /\ Len(result[a]["CHECKSUM"]) = Len(ValidPackets(a))

GroupAt(i) == HeaderLen + 16 + i * (2 + 2 * 512)

\* C9: in every histogram record, for every group i whose first word is w,
\* HISTOGRAM_SYNC{i} = w div 256, HISTOGRAM_DETNUM{i} = (w div 32) mod 8,
\* HISTOGRAM_PIXNUM{i} = w mod 32, the 512 words behind w are HISTOGRAM_DATA{i},
\* and the last word of the packet is CHECKSUM.
C9_BitLayout ==
  (pc \in {"photon", "done"} /\ APID_HIST \in DOMAIN result) =>
    LET data == result[APID_HIST]
        ps == ValidPackets(APID_HIST)
    IN \A k \in 1..Len(ps) :
         /\ \A i \in 0..(N - 1) :
              LET w == WordAt(ps[k], GroupAt(i))
              IN /\ data[IndexedName("HISTOGRAM_SYNC", i)][k] = w \div 256
                 /\ data[IndexedName("HISTOGRAM_DETNUM", i)][k] = (w \div 32) % 8
                 /\ data[IndexedName("HISTOGRAM_PIXNUM", i)][k] = w % 32
                 /\ \A j \in 1..512 :
                      data[IndexedName("HISTOGRAM_DATA", i)][k][j]
                        = WordAt(ps[k], GroupAt(i) + 2 * j)
         /\ data["CHECKSUM"][k] = WordAt(ps[k], Len(ps[k]) - 2)

\* C9 witness: a decoded group with all three packed fields non-zero.
C9_Witness ==
  /\ pc = "done"
  /\ APID_HIST \in DOMAIN result
  /\ \E k \in 1..Len(result[APID_HIST]["CHECKSUM"]) :
       /\ result[APID_HIST]["HISTOGRAM_SYNC0"][k] > 0
       /\ result[APID_HIST]["HISTOGRAM_DETNUM0"][k] > 0
       /\ result[APID_HIST]["HISTOGRAM_PIXNUM0"][k] > 0

FieldsOf(a) == IF a = APID_HIST THEN HistFields ELSE packet_definition_ph

\* C10: the data of every apid in the result are the decoded valid packets of
\* that apid in the order in which they stand in the file.
C10_StreamOrder ==
  pc = "done" =>
    \A a \in DOMAIN result :
      result[a] = Decoded(ValidPackets(a), FieldsOf(a), include_ccsds_headers)

\* C10 witness: two photon packets with a histogram packet between them were
\* decoded, and the two photon records differ.
C10_Witness ==
  /\ pc = "done"
  /\ Len(sent) = 3
  /\ sent[1].apid = APID_PHOTON /\ sent[2].apid = APID_HIST /\ sent[3].apid = APID_PHOTON
  /\ {APID_HIST, APID_PHOTON} \subseteq DOMAIN result
  /\ Len(result[APID_PHOTON]["INT_TIME"]) = 2
  /\ result[APID_PHOTON]["INT_TIME"][1] # result[APID_PHOTON]["INT_TIME"][2]

====
